---- MODULE Spec2Model ----
(***************************************************************************)
(* LabLog (src/LabLog.py): the asynchronous geocoding pipeline of          *)
(* CaseLogApp.  The UI thread runs load_map_markers, the periodic          *)
(* _process_geocoding_results step, clear_application_data_prompt and      *)
(* on_closing; every load that finds a location starts one daemon thread   *)
(* running _geocode_locations_in_thread, which talks to the UI thread      *)
(* through a queue.Queue and to the geocache table through                 *)
(* get_cached_location_db / add_cached_location_db.                        *)
(*                                                                         *)
(* Strings are sequences of one-character strings, so that trimming and    *)
(* the cache key f"{city}|{state}" are computed, not assumed.              *)
(*                                                                         *)
(* A callback of the UI thread is one step: Tk runs callbacks one at a     *)
(* time, and the geocoding thread reads none of the fields they write      *)
(* except root._running, which only on_closing writes.                     *)
(***************************************************************************)
EXTENDS Integers, Sequences, FiniteSets, TLC

(***************************************************************************)
(* Bounds of the model.                                                    *)
(***************************************************************************)
\* number of load requests that may start a geocoding thread
MaxLoads == 2

(***************************************************************************)
(* Strings and case records.                                               *)
(***************************************************************************)
\* None, and a database NULL read through sqlite3.Row
NULL == <<"NULL">>

IsSpace(ch) == ch = " "

RECURSIVE LStrip(_)
LStrip(s) == IF s # <<>> /\ IsSpace(Head(s)) THEN LStrip(Tail(s)) ELSE s

RECURSIVE RStrip(_)
RStrip(s) ==
    IF s # <<>> /\ IsSpace(s[Len(s)]) THEN RStrip(SubSeq(s, 1, Len(s) - 1)) ELSE s

\* str.strip()
Strip(s) == RStrip(LStrip(s))

\* (value or "")
OrEmpty(v) == IF v = NULL \/ v = <<>> THEN <<>> ELSE v

\* the strip() left out
field_unstripped(v) == OrEmpty(v)

\* (case.get(field) or "").strip()
Field(v) == Strip(OrEmpty(v))

Case(c, s, o) == [city_of_offense |-> c, state_of_offense |-> s, offense_type |-> o]

\* the contents of the case_log table that get_all_cases_db() may return: no case,
\* cases without a full location, cases of one location written in several ways
\* (one of them without an offense type), and two locations whose cache keys are
\* the same string (one of them with the same offense type twice)
CaseDBs ==
    { <<>>,
      << Case(<<"a">>, NULL, <<"F">>), Case(<<" ">>, <<"m">>, <<"T">>) >>,
      << Case(<<"j", " ">>, <<"m">>, <<"T">>),
         Case(<<"j">>, <<" ", "m">>, <<"F", " ">>),
         Case(<<>>, <<"m">>, <<"X">>),
         Case(<<"j">>, <<"m">>, NULL) >>,
      << Case(<<"a", "|", "b">>, <<"c">>, <<"F">>),
         Case(<<"a">>, <<"b", "|", "c">>, <<"T">>),
         Case(<<"a">>, <<"b", "|", "c">>, <<" ", "T">>) >> }

\* f"{city}|{state}"
CacheKey(loc) == loc[1] \o <<"|">> \o loc[2]

\* what Nominatim has for the query f"{city}, {state}, USA": a (latitude, longitude),
\* or None for a place it does not know
Nominatim(loc) ==
    CASE loc = << <<"a", "|", "b">>, <<"c">> >> -> NULL
      [] loc = << <<"a">>, <<"b", "|", "c">> >> -> <<2, 2>>
      [] OTHER -> <<1, 1>>

\* the exceptions thread_geolocator.geocode can raise
GeocodeErrors == { "timeout", "unavailable", "error" }

(***************************************************************************)
(* load_map_markers, lines 2558-2571: grouping of the cases by location.   *)
(***************************************************************************)
CaseLocation(case) ==
    << Field(case.city_of_offense), Field(case.state_of_offense) >>

HasLocation(case) == CaseLocation(case)[1] # <<>> /\ CaseLocation(case)[2] # <<>>

UniqueLocations(all_cases) ==
    { CaseLocation(all_cases[i]) : i \in { j \in DOMAIN all_cases : HasLocation(all_cases[j]) } }

RECURSIVE CasesAt(_, _)
CasesAt(all_cases, loc) ==
    IF all_cases = <<>> THEN <<>>
    ELSE IF HasLocation(Head(all_cases)) /\ CaseLocation(Head(all_cases)) = loc
         THEN <<Head(all_cases)>> \o CasesAt(Tail(all_cases), loc)
         ELSE CasesAt(Tail(all_cases), loc)

GroupCases(all_cases) ==
    [ loc \in UniqueLocations(all_cases) |-> CasesAt(all_cases, loc) ]

\* list(unique_locations): the set in some iteration order
ListsOf(S) ==
    { l \in [1..Cardinality(S) -> S] : \A i, j \in DOMAIN l : l[i] = l[j] => i = j }

(***************************************************************************)
(* _process_geocoding_results, lines 2684-2702: the text of the popup.     *)
(***************************************************************************)
\* the code point of a character
Ord(ch) ==
    CASE ch = " " -> 32 [] ch = "F" -> 70 [] ch = "T" -> 84 [] ch = "X" -> 88
      [] ch = "a" -> 97 [] ch = "b" -> 98 [] ch = "c" -> 99 [] ch = "j" -> 106
      [] ch = "m" -> 109 [] ch = "|" -> 124

\* str.__lt__
RECURSIVE Less(_, _)
Less(s, t) ==
    IF t = <<>> THEN FALSE
    ELSE IF s = <<>> THEN TRUE
    ELSE IF Head(s) = Head(t) THEN Less(Tail(s), Tail(t))
    ELSE Ord(Head(s)) < Ord(Head(t))

\* sorted(list(a set of strings))
Sorted(S) == CHOOSE l \in ListsOf(S) : \A i, j \in DOMAIN l : i < j => Less(l[i], l[j])

\* no set: one offense type per case that has one, in the order of the cases
RECURSIVE all_offense_types(_)
all_offense_types(cases_at_location) ==
    IF cases_at_location = <<>> THEN <<>>
    ELSE LET offense_type == Field(Head(cases_at_location).offense_type)
             rest == all_offense_types(Tail(cases_at_location))
         IN IF offense_type # <<>> THEN <<offense_type>> \o rest ELSE rest

\* lines 2688-2695: the set of the offense types that are not empty, sorted
unique_offense_types(cases_at_location) ==
    Sorted({ Field(cases_at_location[i].offense_type) : i \in DOMAIN cases_at_location }
             \ { <<>> })

\* lines 2685-2702: info_text, as the city of the first line, the offense types of
\* the lines "- ..." and, without such lines, which of the two sentences is given
info_text_for_popup(city, cases_at_location) ==
    [ city |-> city,
      types |-> unique_offense_types(cases_at_location),
      none |-> IF cases_at_location = <<>> THEN "no case data"
               ELSE IF unique_offense_types(cases_at_location) = <<>> THEN "no offense types"
               ELSE "" ]

(***************************************************************************)
(* State.                                                                  *)
(***************************************************************************)
VARIABLES
    geocache,                   \* rows of the geocache table: location_key -> (lat, lon)
    running,                    \* root._running
    map_widget,                 \* self.map_widget.winfo_exists()
    ui,                         \* the UI thread: "init", "idle" or "closed"
    map_markers,                \* self.map_markers: (city, state) -> marker position
    geolocated_count,           \* self.geolocated_count
    skipped_count,              \* self.skipped_count
    grouped_cases_by_location,  \* self._grouped_cases_by_location
    geocoding_queue,            \* self.geocoding_queue: which queue object (0: the one of __init__)
    processing_queue,           \* self.processing_queue
    geocoding_thread,           \* self.geocoding_thread: 0 (None) or a thread
    geocoding_after_id,         \* self._geocoding_after_id: 0 (None) or a timer id
    timers,                     \* root.after callbacks that are pending
    queues,                     \* contents of the queue.Queue objects still in use
    threads,                    \* the geocoding threads that are alive
    loads,                      \* number of geocoding threads started so far
    last_load,                  \* history: how the load request ended, if the last callback
                                \*   of the UI thread was one ("none" otherwise)
    put_log,                    \* history: per queue, the events put on it
    got_log,                    \* history: per queue, the events the UI thread has got
    geocoded,                   \* history: location -> its last 'success_geocoded' not yet
                                \*   followed by a lookup, and whether its row is intact
    cycle,                      \* history: "none", or the load cycle not yet finalized is
                                \*   "clean" or "disturbed" (by a failure, a data reset or
                                \*   the closing of the window)
    previous,                   \* history: the result of the last finalized cycle
    finalized,                  \* history: per geocoding thread started, the number of
                                \*   calls of _finalize_map_loading made for its queue
    final_map_status,           \* history: the text final_map_status composed by
                                \*   _finalize_map_loading, if the last callback of the UI
                                \*   thread composed one (NULL otherwise)
    viewport                    \* history: what the last callback of the UI thread did to
                                \*   the position and zoom of the map widget: "kept",
                                \*   "fitted" (fit_markers), "default" (set_position and
                                \*   set_zoom), or "fit_failed", "default_failed" if the
                                \*   call raised

vars ==
    << geocache, running, map_widget, ui, map_markers, geolocated_count,
       skipped_count, grouped_cases_by_location, geocoding_queue, processing_queue,
       geocoding_thread, geocoding_after_id, timers, queues, threads, loads,
       last_load, put_log, got_log, geocoded, cycle, previous, finalized,
       final_map_status, viewport >>

\* the load session of section 3 (LoadSession) and the coordinator's references
session ==
    << map_markers, geolocated_count, skipped_count, grouped_cases_by_location,
       geocoding_queue, queues, processing_queue, geocoding_thread, threads, loads >>

uiSession ==
    << map_markers, geolocated_count, skipped_count, grouped_cases_by_location,
       geocoding_queue, processing_queue, geocoding_thread >>

history == << put_log, got_log >>

cycles == << cycle, previous >>

finals == << finalized, final_map_status, viewport >>

Threads == DOMAIN threads

\* the thread is taken for dead while it runs
never_alive(t) == FALSE

\* the thread is taken for alive after it has returned
always_alive(t) == TRUE

\* threading.Thread.is_alive(): a thread that has returned is no longer in threads
is_alive(t) == t \in Threads

Empty == [ x \in {} |-> 0 ]

Keep(f, D) == [ x \in DOMAIN f \cap D |-> f[x] ]

\* history: a failure, a data reset or on_closing disturbs the cycle under way
Disturbed == IF cycle = "clean" THEN "disturbed" ELSE cycle

\* history: no finalized cycle to compare the next one with
NoPrevious ==
    [ grouped |-> Empty, map_markers |-> Empty, geolocated_count |-> 0,
      skipped_count |-> 0, ok |-> FALSE, rerun |-> FALSE ]

\* CaseLogApp.__init__, lines 519-552, after init_db(): the geocache table is empty
\* or holds rows of earlier runs
Init ==
    /\ geocache \in { Empty, CacheKey(<<<<"j">>, <<"m">>>>) :> <<3, 3>> }
    /\ running = TRUE
    /\ map_widget = TRUE
    /\ ui = "init"
    /\ map_markers = Empty
    /\ geolocated_count = 0
    /\ skipped_count = 0
    /\ grouped_cases_by_location = Empty
    /\ geocoding_queue = 0
    /\ processing_queue = FALSE
    /\ geocoding_thread = 0
    /\ geocoding_after_id = 0
    /\ timers = {}
    /\ queues = (0 :> <<>>)
    /\ threads = Empty
    /\ loads = 0
    /\ last_load = "none"
    /\ put_log = (0 :> <<>>)
    /\ got_log = (0 :> <<>>)
    /\ geocoded = Empty
    /\ cycle = "none"
    /\ previous = NoPrevious
    /\ finalized = Empty
    /\ final_map_status = NULL
    /\ viewport = "kept"

(***************************************************************************)
(* The geocoding thread: _geocode_locations_in_thread, lines 2598-2649.    *)
(* The thread t puts on the queue t.  A thread record holds the locals of  *)
(* the function and, as history, the steps taken for the current location  *)
(* (work), whether the loop was left by the break (stopped), and how many  *)
(* locations had passed the stop check (begun_at_close) and how many       *)
(* events had been put (put_at_close) when on_closing ran.                 *)
(***************************************************************************)
\* queue.Queue.put
Put(q, item) == Append(q, item)

\* every item is put twice
EnqueueTwice(t, item) ==
    /\ queues' = [queues EXCEPT ![t] = Put(Put(@, item), item)]
    /\ put_log' = [put_log EXCEPT ![t] = Append(Append(@, item), item)]

Enqueue(t, item) ==
    /\ queues' = [queues EXCEPT ![t] = Put(@, item)]
    /\ put_log' = [put_log EXCEPT ![t] = Append(@, item)]

\* the stop check left out: the loop goes on after root._running is False
CheckRunningIgnored(t) ==
    LET th == threads[t] IN
    /\ th.pc = "check"
    /\ threads' = [threads EXCEPT ![t] =
          IF th.index > Len(th.locations) THEN [th EXCEPT !.pc = "finish"]
          ELSE [th EXCEPT !.pc = "lookup", !.work = <<>>]]
    /\ UNCHANGED << geocache, running, map_widget, ui, uiSession, geocoding_after_id,
                    timers, queues, loads, last_load, history, geocoded, cycles, finals >>

\* lines 2603-2610: the next item of the for loop, then the stop check
CheckRunning(t) ==
    LET th == threads[t] IN
    /\ th.pc = "check"
    /\ threads' = [threads EXCEPT ![t] =
          IF th.index > Len(th.locations) THEN [th EXCEPT !.pc = "finish"]
          ELSE IF ~running THEN [th EXCEPT !.pc = "finish", !.stopped = TRUE]
          ELSE [th EXCEPT !.pc = "lookup", !.work = <<>>]]
    /\ UNCHANGED << geocache, running, map_widget, ui, uiSession, geocoding_after_id,
                    timers, queues, loads, last_load, history, geocoded, cycles, finals >>

\* get_cached_location_db, lines 169-191: the row, or None on a miss or an error
get_cached_location_db(location_key, fails) ==
    IF ~fails /\ location_key \in DOMAIN geocache THEN geocache[location_key] ELSE NULL

\* lines 2612-2619
Lookup(t) ==
    LET th == threads[t]
        loc == th.locations[th.index]
    IN
    /\ th.pc = "lookup"
    /\ \E fails \in BOOLEAN :
        LET cached_coords == get_cached_location_db(CacheKey(loc), fails)
            item == << "success_cached", loc[1], loc[2], cached_coords[1], cached_coords[2] >>
        IN
        \* an error on a key that has no row reads as the same miss
        /\ fails => CacheKey(loc) \in DOMAIN geocache
        /\ cycle' = IF fails THEN Disturbed ELSE cycle
        /\ IF cached_coords # NULL THEN
               /\ Enqueue(t, item)
               /\ threads' = [threads EXCEPT ![t] =
                     [th EXCEPT !.pc = "check", !.index = @ + 1, !.work = <<"lookup">>]]
           ELSE
               /\ threads' = [threads EXCEPT ![t] =
                     [th EXCEPT !.pc = "geocode",
                                !.work = << IF fails THEN "lookup_failed" ELSE "lookup" >>]]
               /\ UNCHANGED << queues, put_log >>
    /\ geocoded' = Keep(geocoded, DOMAIN geocoded \ {loc})
    /\ UNCHANGED << geocache, running, map_widget, ui, uiSession, geocoding_after_id,
                    timers, loads, last_load, got_log, previous, finals >>

\* an exception that no except clause catches: no item for the location
SkippedUnlessError(t, outcome) ==
    LET th == threads[t]
        loc == th.locations[th.index]
    IN
    /\ IF outcome = "error" THEN UNCHANGED << queues, put_log >>
       ELSE Enqueue(t, << "skipped", loc[1], loc[2], "reason" >>)
    /\ threads' = [threads EXCEPT ![t] =
          [th EXCEPT !.pc = "sleep", !.work = Append(@, "geocode")]]

\* the exception is raised again after the put: the thread ends with it
SkippedAndRaised(t, outcome) ==
    LET th == threads[t]
        loc == th.locations[th.index]
    IN
    /\ Enqueue(t, << "skipped", loc[1], loc[2], "reason" >>)
    /\ threads' = IF outcome = "none"
                  THEN [threads EXCEPT ![t] =
                          [th EXCEPT !.pc = "sleep", !.work = Append(@, "geocode")]]
                  ELSE Keep(threads, Threads \ {t})

\* a continue after the put: the next location without the sleep
SkippedNoSleep(t, outcome) ==
    LET th == threads[t]
        loc == th.locations[th.index]
    IN
    /\ Enqueue(t, << "skipped", loc[1], loc[2], "reason" >>)
    /\ threads' = [threads EXCEPT ![t] =
          [th EXCEPT !.pc = "check", !.index = @ + 1, !.work = Append(@, "geocode")]]

\* lines 2631-2643: the 'skipped' item of a location that was not geolocated; its
\* fourth field, a text that is only logged (line 2732), is not told apart
Skipped(t, outcome) ==
    LET th == threads[t]
        loc == th.locations[th.index]
    IN
    /\ Enqueue(t, << "skipped", loc[1], loc[2], "reason" >>)
    /\ threads' = [threads EXCEPT ![t] =
          [th EXCEPT !.pc = "sleep", !.work = Append(@, "geocode")]]

\* lines 2623-2626 and 2631-2643: the external call, its answer and its failures
Geocode(t) ==
    LET th == threads[t]
        loc == th.locations[th.index]
    IN
    /\ th.pc = "geocode"
    /\ \/ /\ Nominatim(loc) # NULL
          /\ threads' = [threads EXCEPT ![t] =
                [th EXCEPT !.pc = "store", !.location = Nominatim(loc),
                           !.work = Append(@, "geocode")]]
          /\ UNCHANGED << queues, put_log, cycle >>
       \/ /\ Nominatim(loc) = NULL
          /\ Skipped(t, "none")
          /\ UNCHANGED cycle
       \/ \E outcome \in GeocodeErrors :
          /\ Skipped(t, outcome)
          /\ cycle' = Disturbed
    /\ UNCHANGED << geocache, running, map_widget, ui, uiSession, geocoding_after_id,
                    timers, loads, last_load, got_log, geocoded, previous, finals >>

\* the INSERT OR REPLACE never committed
add_without_commit(location_key, coords, fails) == geocache

\* add_cached_location_db, lines 193-212: INSERT OR REPLACE, or nothing on an error
add_cached_location_db(location_key, coords, fails) ==
    IF fails THEN geocache
    ELSE [ k \in DOMAIN geocache \cup {location_key} |->
             IF k = location_key THEN coords ELSE geocache[k] ]

\* the error of the cache write is not caught: the thread ends with it
StoreOrRaise(t) ==
    LET th == threads[t]
        loc == th.locations[th.index]
    IN
    /\ th.pc = "store"
    /\ \E fails \in BOOLEAN :
        /\ geocache' = add_cached_location_db(CacheKey(loc), th.location, fails)
        /\ cycle' = IF fails THEN Disturbed ELSE cycle
        /\ geocoded' =
              [ l \in DOMAIN geocoded \cup {loc} |->
                  IF l = loc THEN [ coords |-> th.location, intact |-> ~fails ]
                  ELSE geocoded[l] ]
        /\ IF fails THEN
               /\ threads' = Keep(threads, Threads \ {t})
               /\ UNCHANGED << queues, put_log >>
           ELSE
               /\ threads' = [threads EXCEPT ![t] =
                     [th EXCEPT !.pc = "sleep", !.work = Append(@, "store")]]
               /\ Enqueue(t, << "success_geocoded", loc[1], loc[2],
                                th.location[1], th.location[2] >>)
    /\ UNCHANGED << running, map_widget, ui, uiSession, geocoding_after_id,
                    timers, loads, last_load, got_log, previous, finals >>

\* lines 2627-2630
Store(t) ==
    LET th == threads[t]
        loc == th.locations[th.index]
    IN
    /\ th.pc = "store"
    /\ \E fails \in BOOLEAN :
        /\ geocache' = add_cached_location_db(CacheKey(loc), th.location, fails)
        /\ cycle' = IF fails THEN Disturbed ELSE cycle
        \* history: the row of loc is intact if it was written; a row written for
        \* loc replaces the row of any other location with the same key
        /\ geocoded' =
              [ l \in DOMAIN geocoded \cup {loc} |->
                  IF l = loc THEN [ coords |-> th.location, intact |-> ~fails ]
                  ELSE IF ~fails /\ CacheKey(l) = CacheKey(loc)
                       THEN [ geocoded[l] EXCEPT !.intact = FALSE ]
                       ELSE geocoded[l] ]
    /\ threads' = [threads EXCEPT ![t] =
          [th EXCEPT !.pc = "sleep", !.work = Append(@, "store")]]
    /\ Enqueue(t, << "success_geocoded", loc[1], loc[2], th.location[1], th.location[2] >>)
    /\ UNCHANGED << running, map_widget, ui, uiSession, geocoding_after_id,
                    timers, loads, last_load, got_log, previous, finals >>

\* line 2646: time.sleep(1.1), then the next iteration
Sleep(t) ==
    LET th == threads[t] IN
    /\ th.pc = "sleep"
    /\ threads' = [threads EXCEPT ![t] =
          [th EXCEPT !.pc = "check", !.index = @ + 1, !.work = Append(@, "sleep")]]
    /\ UNCHANGED << geocache, running, map_widget, ui, uiSession, geocoding_after_id,
                    timers, queues, loads, last_load, history, geocoded, cycles, finals >>

\* no 'finished' item after the break
PutFinishedUnlessStopped(t) ==
    LET th == threads[t] IN
    /\ th.pc = "finish"
    /\ IF th.stopped THEN UNCHANGED << queues, put_log >>
       ELSE Enqueue(t, << "finished" >>)
    /\ threads' = [threads EXCEPT ![t] = [th EXCEPT !.pc = "exit"]]
    /\ UNCHANGED << geocache, running, map_widget, ui, uiSession, geocoding_after_id,
                    timers, loads, last_load, got_log, geocoded, cycles, finals >>

\* the thread clears self.processing_queue itself when it has put 'finished'
PutFinishedAndClearFlag(t) ==
    LET th == threads[t] IN
    /\ th.pc = "finish"
    /\ Enqueue(t, << "finished" >>)
    /\ threads' = [threads EXCEPT ![t] = [th EXCEPT !.pc = "exit"]]
    /\ processing_queue' = FALSE
    /\ UNCHANGED << geocache, running, map_widget, ui, map_markers, geolocated_count,
                    skipped_count, grouped_cases_by_location, geocoding_queue,
                    geocoding_thread, geocoding_after_id, timers, loads, last_load,
                    got_log, geocoded, cycles, finals >>

\* line 2648: result_queue.put(('finished',))
PutFinished(t) ==
    LET th == threads[t] IN
    /\ th.pc = "finish"
    /\ Enqueue(t, << "finished" >>)
    /\ threads' = [threads EXCEPT ![t] = [th EXCEPT !.pc = "exit"]]
    /\ UNCHANGED << geocache, running, map_widget, ui, uiSession, geocoding_after_id,
                    timers, loads, last_load, got_log, geocoded, cycles, finals >>

\* line 2649 and the return of the thread's target: the thread is no longer alive,
\* and its queue goes with it unless the UI thread still holds it
Exit(t) ==
    LET th == threads[t]
        held == (DOMAIN queues \ {t}) \cup {geocoding_queue}
    IN
    /\ th.pc = "exit"
    /\ threads' = Keep(threads, Threads \ {t})
    /\ queues' = Keep(queues, held)
    /\ put_log' = Keep(put_log, held)
    /\ got_log' = Keep(got_log, held)
    /\ UNCHANGED << geocache, running, map_widget, ui, uiSession, geocoding_after_id,
                    timers, loads, last_load, geocoded, cycles, finals >>

_geocode_locations_in_thread(t) ==
    \/ CheckRunning(t)
    \/ Lookup(t)
    \/ Geocode(t)
    \/ Store(t)
    \/ Sleep(t)
    \/ PutFinished(t)
    \/ Exit(t)

(***************************************************************************)
(* The UI thread.                                                          *)
(***************************************************************************)
\* threading.Thread(target=..., args=(list_of_unique_locations, queue)), line 2589
NewThread(locations) ==
    [ pc |-> "check", locations |-> locations, index |-> 1, location |-> NULL,
      work |-> <<>>, stopped |-> FALSE, begun_at_close |-> -1, put_at_close |-> -1 ]

\* a thread past its last put keeps no locals of interest
Past(th) == IF th.pc = "exit" THEN [ NewThread(<<>>) EXCEPT !.pc = "exit" ] ELSE th

\* root.after: a new timer id
NewTimer(pending) == CHOOSE id \in 1..(Cardinality(pending) + 1) : id \notin pending

\* lines 2523-2539: the load request returns without touching the session
NoLoad(how) ==
    /\ last_load' = how
    /\ ui' = "idle"
    /\ final_map_status' = NULL
    /\ viewport' = "kept"
    /\ UNCHANGED << session, geocoding_after_id, timers, history, cycles, finalized >>

\* the counters are not reset with the markers
ClearMarkersOnly ==
    /\ map_markers' = Empty
    /\ UNCHANGED << geolocated_count, skipped_count >>

\* lines 2541-2546
ClearSession ==
    /\ map_markers' = Empty
    /\ geolocated_count' = 0
    /\ skipped_count' = 0

\* no two locations of the grouping have the same cache key
KeysDistinct(grouped) ==
    \A l1, l2 \in DOMAIN grouped : CacheKey(l1) = CacheKey(l2) => l1 = l2

\* lines 2541-2594: the load request that passed the guard
StartLoad(all_cases) ==
    /\ ClearSession
    /\ final_map_status' = NULL
    /\ IF all_cases = <<>> THEN
           \* lines 2550-2556
           /\ grouped_cases_by_location' = Empty
           /\ last_load' = "no_cases"
           /\ viewport' = "default"
           /\ ui' = "idle"
           /\ cycle' = "none"
           /\ previous' = NoPrevious
           /\ UNCHANGED << geocoding_queue, queues, processing_queue, geocoding_thread,
                           geocoding_after_id, timers, threads, loads, history,
                           finalized >>
       ELSE IF UniqueLocations(all_cases) = {} THEN
           \* lines 2558-2579
           /\ grouped_cases_by_location' = GroupCases(all_cases)
           /\ last_load' = "no_locations"
           /\ viewport' = "default"
           /\ ui' = "idle"
           /\ cycle' = "none"
           /\ previous' = NoPrevious
           /\ UNCHANGED << geocoding_queue, queues, processing_queue, geocoding_thread,
                           geocoding_after_id, timers, threads, loads, history,
                           finalized >>
       ELSE
           \* lines 2558-2594
           \E list_of_unique_locations \in ListsOf(UniqueLocations(all_cases)) :
               LET t == loads + 1
                   \* the old queue is dropped unless a thread may still put on it
                   held == { u \in Threads : threads[u].pc # "exit" }
               IN
               /\ t <= MaxLoads
               /\ loads' = t
               /\ grouped_cases_by_location' = GroupCases(all_cases)
               /\ queues' = Keep(queues, held) @@ (t :> <<>>)
               /\ geocoding_queue' = t
               /\ processing_queue' = TRUE
               /\ threads' = [ u \in Threads |-> Past(threads[u]) ]
                                  @@ (t :> NewThread(list_of_unique_locations))
               /\ geocoding_thread' = t
               /\ put_log' = Keep(put_log, held) @@ (t :> <<>>)
               /\ got_log' = Keep(got_log, held) @@ (t :> <<>>)
               /\ finalized' = finalized @@ (t :> 0)
               /\ last_load' = "started"
               /\ viewport' = "kept"
               \* history: the last finalized cycle is kept while this cycle follows
               \* it directly on the same cases
               /\ cycle' = "clean"
               /\ previous' =
                     IF cycle = "none" /\ previous.grouped = GroupCases(all_cases)
                     THEN previous ELSE NoPrevious
               \* line 2594: _process_geocoding_results() is called at once, finds the
               \* queue of the thread just started empty (lines 2659-2662) and
               \* schedules itself (lines 2744-2746)
               /\ IF running THEN
                      /\ geocoding_after_id' = NewTimer(timers)
                      /\ timers' = timers \cup {NewTimer(timers)}
                  ELSE UNCHANGED << geocoding_after_id, timers >>
               /\ ui' = "idle"

\* the guard of lines 2535-2539 left out
load_map_markers_unguarded(all_cases) ==
    IF ~map_widget THEN NoLoad("no_widget") ELSE StartLoad(all_cases)

\* load_map_markers, lines 2521-2594, with all_cases the result of get_all_cases_db()
load_map_markers(all_cases) ==
    IF ~map_widget THEN
        \* lines 2523-2532
        NoLoad("no_widget")
    ELSE IF geocoding_thread # 0 /\ is_alive(geocoding_thread) THEN
        \* lines 2535-2539
        NoLoad("busy")
    ELSE
        StartLoad(all_cases)

\* line 2548: get_all_cases_db() is called by a load request that has passed the
\* guards of lines 2523-2539; a request that returns there reads no table
TablesRead ==
    IF map_widget /\ ~(geocoding_thread # 0 /\ is_alive(geocoding_thread))
    THEN CaseDBs ELSE { << >> }

\* CaseLogApp.__init__, line 565: the first load, of the table as it is found
Startup ==
    /\ ui = "init"
    /\ \E db \in TablesRead : load_map_markers(db)
    /\ UNCHANGED << geocache, running, map_widget, geocoded >>

\* submit_case, delete_selected_cases, import_cases_from_xlsx and the marker icon
\* handler (lines 1145, 1167, 1461, 1678, 2234): the table changes or not, then a
\* load of the table as it is then
Reload ==
    /\ ui = "idle"
    /\ \E db \in TablesRead : load_map_markers(db)
    /\ UNCHANGED << geocache, running, map_widget, geocoded >>

\* the newest item first
GetLast(q) == << q[Len(q)], SubSeq(q, 1, Len(q) - 1) >>

\* queue.Queue.get_nowait on a queue that is not empty: the item and the rest
Get(q) == << Head(q), Tail(q) >>

\* the ways the Tk calls made for one item can end: "ok", set_marker raises
\* (line 2708), update_status or update_idletasks raises (lines 2723-2725,
\* 2734-2736), fit_markers raises (line 2763), set_position or set_zoom raises
\* (lines 2782-2783)
TkOutcomes == { "ok", "set_marker", "update_status", "fit_markers", "set_position" }

\* the pieces of an f-string: text and formatted numbers
Txt(s) == << "txt", s >>

Num(n) == << "num", n >>

\* fit_markers is never called: the default position and zoom in every case
finalize_with_default_view(u, tk) ==
    [u EXCEPT !.finalized = @ + 1,
              !.final_map_status = << Txt("Map status: No geolocatable cases.") >>,
              !.viewport = "default"]

\* _finalize_map_loading, lines 2753-2812, in the state u of the UI thread's fields:
\* with the map widget, final_map_status is composed (lines 2758-2791)
_finalize_map_loading(u, tk) ==
    LET status ==
            IF u.geolocated_count > 0 THEN
                IF tk = "fit_markers" THEN
                    << Txt("Map status: Displaying "), Num(u.geolocated_count),
                       Txt(" locations. Could not fit view.") >>
                ELSE IF u.map_markers # Empty THEN
                    << Txt("Map status: Displaying "), Num(u.geolocated_count),
                       Txt(" locations with markers.") >>
                ELSE << Txt("Map status: No geolocated markers to display.") >>
            ELSE << Txt("Map status: No geolocatable cases.") >>
        skipped ==
            IF u.skipped_count > 0
            THEN << Txt(" ("), Num(u.skipped_count), Txt(" skipped/errored)") >>
            ELSE << >>
        \* lines 2759-2785: the call made for the viewport, and how it ends
        view ==
            IF u.geolocated_count > 0 THEN
                IF tk = "fit_markers" THEN "fit_failed"
                ELSE IF u.map_markers # Empty THEN "fitted"
                ELSE "default"
            ELSE IF tk = "set_position" THEN "default_failed"
            ELSE "default"
    IN
    IF map_widget THEN
        [u EXCEPT !.finalized = @ + 1,
                  !.final_map_status = status \o skipped,
                  !.viewport = view,
                  !.fault = @ \/ view \in { "fit_failed", "default_failed" }]
    ELSE
        \* lines 2796-2802
        [u EXCEPT !.finalized = @ + 1]

\* line 2667 left out: the reference to the thread is kept
finished_keeping_thread(v, tk) ==
    _finalize_map_loading([v EXCEPT !.processing_queue = FALSE], tk)

\* lines 2664-2668: the 'finished' item
finished(v, tk) ==
    _finalize_map_loading(
        [v EXCEPT !.processing_queue = FALSE, !.geocoding_thread = 0], tk)

\* line 2733 left out: the counter is left as it is
skipped_uncounted(w, tk) ==
    IF tk = "ok" THEN w
    ELSE [w EXCEPT !.processing_queue = FALSE, !.loop = FALSE]

\* lines 2730-2742: the 'skipped' item; a Tk call that raises ends the loop
skipped(w, tk) ==
    IF tk = "ok" THEN
        [w EXCEPT !.skipped_count = @ + 1]
    ELSE
        [w EXCEPT !.skipped_count = @ + 1,
                  !.processing_queue = FALSE, !.loop = FALSE]

\* lines 2664-2736: one pass of the while loop for the item got, in the state u of
\* the UI thread's fields; u.loop tells whether the loop goes on
ProcessItem(u, got, tk) ==
    LET item == got[1]
        location_key_tuple == << item[2], item[3] >>
        cases_at_location ==
            IF location_key_tuple \in DOMAIN grouped_cases_by_location
            THEN grouped_cases_by_location[location_key_tuple] ELSE << >>
        marker == [ position |-> << item[4], item[5] >>,
                    data |-> info_text_for_popup(item[2], cases_at_location) ]
        \* history: a Tk call made for a result item raises
        v == [u EXCEPT !.queue = got[2], !.got_log = Append(@, item),
                       !.fault = @ \/ (map_widget /\ item[1] # "finished" /\ tk # "ok")]
        w == IF item[1] = "finished" THEN finished(v, tk) ELSE v
    IN
    IF ~map_widget THEN
        \* lines 2672-2675
        [w EXCEPT !.processing_queue = FALSE, !.loop = FALSE]
    ELSE IF item[1] \in { "success_cached", "success_geocoded", "success" } THEN
        \* lines 2678-2728; an update_status that raises is counted as a skip
        IF tk = "set_marker" THEN
            [w EXCEPT !.skipped_count = @ + 1]
        ELSE
            [w EXCEPT !.map_markers =
                          [ k \in DOMAIN @ \cup {location_key_tuple} |->
                              IF k = location_key_tuple THEN marker ELSE @[k] ],
                      !.geolocated_count = @ + 1,
                      !.skipped_count = IF tk = "ok" THEN @ ELSE @ + 1]
    ELSE IF item[1] = "skipped" THEN
        skipped(w, tk)
    ELSE w

\* lines 2657-2662: the while loop, with tks the outcome of the Tk calls per pass
RECURSIVE ProcessQueue(_, _)
ProcessQueue(u, tks) ==
    IF u.queue = <<>> \/ ~u.loop THEN u
    ELSE ProcessQueue(ProcessItem(u, Get(u.queue), Head(tks)), Tail(tks))

\* the ways the Tk calls made for the item can end: set_marker is called for a
\* success item, update_status for a success or a skipped item, fit_markers and
\* set_position for the 'finished' item
TkOutcomesOf(item) ==
    { tk \in TkOutcomes :
        /\ tk = "set_marker" => item[1] \in { "success_cached", "success_geocoded" }
        /\ tk = "update_status" => item[1] # "finished"
        /\ tk = "fit_markers" => item[1] = "finished"
        /\ tk = "set_position" => item[1] = "finished" }

\* the outcomes of the Tk calls that can be met while the queue q is processed, one
\* per item
RECURSIVE TkPlans(_)
TkPlans(q) ==
    IF q = << >> THEN { << >> }
    ELSE { << tk >> \o tks : tk \in TkOutcomesOf(Head(q)), tks \in TkPlans(Tail(q)) }

\* the test of line 2744 never passes: no step is scheduled
never_reschedule(processing) == FALSE

\* line 2744: whether the next step of the sync loop is to be scheduled
reschedule(processing) == processing /\ running

\* _process_geocoding_results, lines 2653-2749, with pending the timers still pending
_process_geocoding_results(pending) ==
    \E u \in { ProcessQueue(
                    [ queue |-> queues[geocoding_queue],
                      got_log |-> got_log[geocoding_queue],
                      map_markers |-> map_markers,
                      geolocated_count |-> geolocated_count,
                      skipped_count |-> skipped_count,
                      processing_queue |-> processing_queue,
                      geocoding_thread |-> geocoding_thread,
                      finalized |-> 0,
                      final_map_status |-> NULL,
                      viewport |-> "kept",
                      fault |-> FALSE,
                      loop |-> TRUE ], tks) : tks \in TkPlans(queues[geocoding_queue]) } :
        LET \* history: the cycle with the Tk failures of this step
            now == IF u.fault THEN Disturbed ELSE cycle
        IN
        /\ queues' = [queues EXCEPT ![geocoding_queue] = u.queue]
        /\ got_log' = [got_log EXCEPT ![geocoding_queue] = u.got_log]
        /\ map_markers' = u.map_markers
        /\ geolocated_count' = u.geolocated_count
        /\ skipped_count' = u.skipped_count
        /\ geocoding_thread' = u.geocoding_thread
        \* lines 2744-2749
        /\ IF reschedule(u.processing_queue) THEN
               IF map_widget THEN
                   /\ geocoding_after_id' = NewTimer(pending)
                   /\ timers' = pending \cup {NewTimer(pending)}
                   /\ processing_queue' = TRUE
               ELSE
                   /\ processing_queue' = FALSE
                   /\ timers' = pending
                   /\ UNCHANGED geocoding_after_id
           ELSE
               /\ processing_queue' = u.processing_queue
               /\ timers' = pending
               /\ UNCHANGED geocoding_after_id
        \* history: the calls of _finalize_map_loading (line 2668) and the text
        \* composed
        /\ finalized' =
              [ t \in DOMAIN finalized |->
                  IF t = geocoding_queue THEN finalized[t] + u.finalized ELSE finalized[t] ]
        /\ final_map_status' = u.final_map_status
        /\ viewport' = u.viewport
        \* history: _finalize_map_loading ends the cycle; its result is kept, with
        \* ok: it ran undisturbed, and rerun: so did the cycle before it, on the
        \* same cases, whose locations have distinct cache keys
        /\ IF u.finalized > 0 THEN
               /\ cycle' = "none"
               /\ previous' =
                     IF cycle = "none" THEN NoPrevious
                     ELSE [ grouped |-> grouped_cases_by_location,
                            map_markers |-> u.map_markers,
                            geolocated_count |-> u.geolocated_count,
                            skipped_count |-> u.skipped_count,
                            ok |-> now = "clean",
                            rerun |-> /\ previous # NoPrevious
                                      /\ previous.ok
                                      /\ now = "clean"
                                      /\ KeysDistinct(grouped_cases_by_location) ]
           ELSE
               /\ cycle' = now
               /\ UNCHANGED previous
        /\ ui' = "idle"
        /\ last_load' = "none"
        /\ UNCHANGED << geocache, running, map_widget, grouped_cases_by_location,
                        geocoding_queue, threads, loads, put_log, geocoded >>

\* root.after(50, self._process_geocoding_results) comes due
Timer ==
    /\ ui = "idle"
    /\ \E id \in timers : _process_geocoding_results(timers \ {id})

\* clear_application_data_prompt, lines 2333-2368: the database file is removed and
\* init_db() creates empty tables; self.map_markers is left as it is
clear_application_data_prompt ==
    /\ ui = "idle"
    /\ geocache' = Empty
    /\ geocoded' = [ l \in DOMAIN geocoded |-> [ geocoded[l] EXCEPT !.intact = FALSE ] ]
    /\ cycle' = Disturbed
    /\ previous' = [ previous EXCEPT !.ok = FALSE ]
    /\ last_load' = "none"
    /\ final_map_status' = NULL
    \* lines 2363-2368
    /\ viewport' = IF map_widget THEN "default" ELSE "kept"
    /\ UNCHANGED << running, map_widget, ui, session, geocoding_after_id, timers,
                    history, finalized >>

\* history: how far the thread t was when root._running fell
ThreadAtClose(t) ==
    LET th == threads[t] IN
    IF running /\ th.pc \in { "check", "lookup", "geocode", "store", "sleep" }
    THEN [ th EXCEPT !.begun_at_close = IF th.pc = "check" THEN th.index - 1 ELSE th.index,
                     !.put_at_close = Len(put_log[t]) ]
    ELSE th

\* on_closing, lines 3005-3050.  root.destroy() ends the event loop; if it raises
\* (the destroy of a child widget fails) Tk reports the exception of the callback
\* and the event loop goes on, with root._running False and the map widget gone
on_closing ==
    /\ ui = "idle"
    /\ running' = FALSE
    /\ IF geocoding_after_id # 0 THEN
           /\ timers' = timers \ {geocoding_after_id}
           /\ geocoding_after_id' = 0
       ELSE UNCHANGED << timers, geocoding_after_id >>
    /\ map_widget' = FALSE
    /\ \E destroyed \in BOOLEAN : ui' = IF destroyed THEN "closed" ELSE "idle"
    /\ threads' = [ t \in Threads |-> ThreadAtClose(t) ]
    /\ last_load' = "none"
    /\ final_map_status' = NULL
    /\ viewport' = "kept"
    \* history: the cycle under way is cut short
    /\ cycle' = Disturbed
    /\ previous' = [ previous EXCEPT !.ok = FALSE ]
    /\ UNCHANGED << geocache, uiSession, queues, loads, history, geocoded, finalized >>

Next ==
    \/ Startup
    \/ Reload
    \/ Timer
    \/ clear_application_data_prompt
    \/ on_closing
    \/ \E t \in Threads : _geocode_locations_in_thread(t)

Spec == Init /\ [][Next]_vars

(***************************************************************************)
(* Events.                                                                 *)
(***************************************************************************)
IsResult(item) == item[1] \in { "success_cached", "success_geocoded", "skipped" }

IsFinished(item) == item[1] = "finished"

About(item, loc) == item[2] = loc[1] /\ item[3] = loc[2]

Results(log) == SelectSeq(log, IsResult)

IsPrefix(s, l) == Len(s) <= Len(l) /\ SubSeq(l, 1, Len(s)) = s

\* the threads whose puts are still on record
Logged == Threads \cap DOMAIN put_log

\* the number of locations the thread has put an event for, by its position
Reported(th) == IF th.pc = "sleep" THEN th.index ELSE th.index - 1

\* the location the thread t is working on
Current(t) == threads[t].locations[threads[t].index]

(***************************************************************************)
(* C1.  In every reachable state at most one geocoding thread is alive:    *)
(* no second thread is started before the first has terminated.            *)
(***************************************************************************)
C1_OneWorkerAlive == Cardinality(Threads) <= 1

\* a load request made while the thread self.geocoding_thread refers to is alive
LoadWhileWorkerAlive ==
    /\ geocoding_thread # 0
    /\ is_alive(geocoding_thread)
    /\ Reload

(***************************************************************************)
(* C2.  A load request made while the thread of the current batch (the one *)
(* self.geocoding_thread refers to) is alive leaves the session as it is:  *)
(* markers, counters, grouping, queue and its contents, processing_queue,  *)
(* the thread reference and the threads; no thread is started and nothing  *)
(* is put on a queue.                                                      *)
(***************************************************************************)
C2_BusyLoadIsNoOp ==
    [][LoadWhileWorkerAlive => UNCHANGED << session, put_log >>]_vars

C2_Witness ==
    /\ last_load = "busy"
    /\ geocoding_thread # 0
    /\ is_alive(geocoding_thread)

FinishedObserved ==
    \E i \in DOMAIN got_log[geocoding_queue] : IsFinished(got_log[geocoding_queue][i])

\* a load request made in the state Running of the load cycle
LoadWhileBatchInProgress ==
    /\ processing_queue
    /\ ~FinishedObserved
    /\ Reload

(***************************************************************************)
(* C3.  A load request made while processing_queue is set and the          *)
(* 'finished' item of the current batch has not been got clears no marker  *)
(* and no counter, replaces no queue and starts no thread, whether or not  *)
(* the thread has terminated.                                              *)
(***************************************************************************)
C3_NoLoadWhileBatchInProgress ==
    [][LoadWhileBatchInProgress =>
          UNCHANGED << map_markers, geolocated_count, skipped_count, geocoding_queue,
                       geocoding_thread, loads >>]_vars

\* root._running was true at every stop check of the thread so far
FlagStayedTrue(th) == th.begun_at_close = -1 /\ ~th.stopped

(***************************************************************************)
(* C4.  While root._running stays true a thread given N locations puts one *)
(* result item per location, in the order of the list, and after the N     *)
(* items exactly one 'finished' item, whatever the cache and the geocoder  *)
(* do.                                                                     *)
(***************************************************************************)
C4_AllLocationsReported ==
    \A t \in Logged :
        LET th == threads[t]
            log == put_log[t]
            n == Reported(th)
        IN
        FlagStayedTrue(th) =>
            /\ Len(log) = IF th.pc = "exit" THEN n + 1 ELSE n
            /\ \A i \in 1..n : IsResult(log[i]) /\ About(log[i], th.locations[i])
            /\ th.pc = "exit" => n = Len(th.locations) /\ IsFinished(log[n + 1])

C4_Witness ==
    \E t \in Logged :
        /\ threads[t].pc = "exit"
        /\ FlagStayedTrue(threads[t])
        /\ Len(threads[t].locations) = 2
        /\ put_log[t][1][1] = "skipped"
        /\ put_log[t][2][1] = "success_geocoded"
        /\ IsFinished(put_log[t][3])

(***************************************************************************)
(* C5.  The UI thread gets the items of a queue in the order they were put *)
(* on it; when it has got 'finished' it has got every item put on that     *)
(* queue, and nothing is put or got after it.                              *)
(***************************************************************************)
C5_ObservedInOrder ==
    \A q \in DOMAIN got_log :
        /\ IsPrefix(got_log[q], put_log[q])
        /\ put_log[q] = got_log[q] \o queues[q]
        /\ (\E i \in DOMAIN got_log[q] : IsFinished(got_log[q][i])) =>
              /\ got_log[q] = put_log[q]
              /\ IsFinished(got_log[q][Len(got_log[q])])
              /\ q \in Threads => threads[q].pc = "exit"

C5_Witness ==
    \E q \in DOMAIN got_log :
        /\ Len(got_log[q]) = 3
        /\ IsFinished(got_log[q][3])
        /\ got_log[q][1][1] # got_log[q][2][1]

(***************************************************************************)
(* C6.  As claimed: when root._running falls after k of N locations        *)
(* (k < N) were processed, the thread puts result items for at most those  *)
(* k locations and no 'finished' item.                                     *)
(***************************************************************************)
C6_StopMeansNoFinished ==
    \A t \in Logged :
        LET th == threads[t] IN
        (th.put_at_close >= 0 /\ th.put_at_close < Len(th.locations)) =>
            /\ Len(Results(put_log[t])) <= th.put_at_close
            /\ \A i \in DOMAIN put_log[t] : ~IsFinished(put_log[t][i])

(***************************************************************************)
(* C6, amended.  When root._running falls after k of N locations were      *)
(* processed, the thread puts result items only for the locations whose    *)
(* stop check had passed by then, the k processed ones and at most one     *)
(* more, in the order of the list, and after the break it still puts       *)
(* exactly one 'finished' item.                                            *)
(***************************************************************************)
C6_StopCutsShort ==
    \A t \in Logged :
        LET th == threads[t]
            log == put_log[t]
            b == th.begun_at_close
            r == Len(Results(log))
        IN
        b >= 0 =>
            /\ th.put_at_close <= b /\ b <= th.put_at_close + 1
            /\ r <= b
            /\ \A i \in 1..r : IsResult(log[i]) /\ About(log[i], th.locations[i])
            /\ th.stopped => r = b /\ b < Len(th.locations)
            /\ IF th.pc = "exit"
               THEN r = b /\ Len(log) = b + 1 /\ IsFinished(log[b + 1])
               ELSE Len(log) = r

C6_Witness ==
    \E t \in Logged :
        /\ threads[t].pc = "exit"
        /\ threads[t].stopped
        /\ threads[t].put_at_close = 0
        /\ threads[t].begun_at_close = 1
        /\ Len(threads[t].locations) = 2
        /\ Len(put_log[t]) = 2

OneFinishedLast(log) ==
    /\ log # <<>>
    /\ IsFinished(log[Len(log)])
    /\ \A i \in 1..(Len(log) - 1) : ~IsFinished(log[i])

(***************************************************************************)
(* C7.  Every run of the thread, also one cut short by the stop check,     *)
(* puts exactly one 'finished' item, and it is the last item put on the    *)
(* queue.                                                                  *)
(***************************************************************************)
C7_ExactlyOneFinishedLast ==
    /\ \A t \in Logged :
          IF threads[t].pc = "exit" THEN OneFinishedLast(put_log[t])
          ELSE \A i \in DOMAIN put_log[t] : ~IsFinished(put_log[t][i])
    \* the queue of a thread that has returned
    /\ \A q \in DOMAIN put_log \ (Threads \cup {0}) : OneFinishedLast(put_log[q])

C7_Witness ==
    \E t \in Logged :
        /\ threads[t].pc = "exit"
        /\ threads[t].stopped
        /\ put_log[t] = << << "finished" >> >>

\* the steps of a location whose lookup missed, when the next one is begun
MissWork ==
    { << l, "geocode", "sleep" >> : l \in { "lookup", "lookup_failed" } }
      \cup { << l, "geocode", "store", "sleep" >> : l \in { "lookup", "lookup_failed" } }

(***************************************************************************)
(* C8.  A location whose lookup hits is followed by no geocoder call and   *)
(* no sleep; a location whose lookup misses has the sleep after the        *)
(* geocoder call, whatever its outcome, before the next location is begun. *)
(***************************************************************************)
C8_ThrottleOnMissOnly ==
    \A t \in Logged :
        LET th == threads[t] IN
        \* between two locations, and after the last one
        /\ (th.pc \in { "check", "finish" } /\ th.index > 1) =>
              LET item == put_log[t][th.index - 1] IN
              IF item[1] = "success_cached" THEN th.work = << "lookup" >>
              ELSE /\ th.work \in MissWork
                   /\ item[1] = "success_geocoded" <=> Len(th.work) = 4
        \* a location is begun with nothing done for it
        /\ th.pc = "lookup" => th.work = << >>
        /\ th.pc = "sleep" => Len(th.work) >= 2 /\ th.work[2] = "geocode"

C8_Witness ==
    \E t \in Logged :
        /\ threads[t].pc = "check"
        /\ threads[t].index = 2
        /\ threads[t].work = << "lookup", "geocode", "sleep" >>
        /\ put_log[t][1][1] = "skipped"

\* the step of t puts 'success_cached' with coords and goes on to the next location
HitWith(t, coords) ==
    /\ put_log'[t] = Append(put_log[t],
          << "success_cached", Current(t)[1], Current(t)[2], coords[1], coords[2] >>)
    /\ threads'[t].pc = "check"

(***************************************************************************)
(* C9.  As claimed: once 'success_geocoded' was put for a location, the    *)
(* next lookup of that location (in a later load cycle) puts               *)
(* 'success_cached' with the same coordinates and goes on without a        *)
(* geocoder call.                                                          *)
(***************************************************************************)
C9_GeocodedThenCacheHit ==
    [][\A t \in Threads :
          (/\ threads[t].pc = "lookup"
           /\ Current(t) \in DOMAIN geocoded
           /\ Lookup(t))
          => HitWith(t, geocoded[Current(t)].coords)]_vars

(***************************************************************************)
(* C9, amended.  Once 'success_geocoded' was put for a location, if the    *)
(* cache write made for it succeeded and its row was neither removed by a  *)
(* data reset nor replaced by the write of another location with the same  *)
(* key, the next lookup of that location, unless its read fails, puts      *)
(* 'success_cached' with the same coordinates and goes on without a        *)
(* geocoder call.                                                          *)
(***************************************************************************)
C9_IntactRowGivesCacheHit ==
    [][\A t \in Threads :
          (/\ threads[t].pc = "lookup"
           /\ Current(t) \in DOMAIN geocoded
           /\ geocoded[Current(t)].intact
           /\ Lookup(t)
           /\ threads'[t].work # << "lookup_failed" >>)
          => HitWith(t, geocoded[Current(t)].coords)]_vars

\* coordinates (1, 1) are in no row of an earlier run: the row hit was written
\* after a 'success_geocoded' of this run
C9_Witness ==
    \E t \in Logged :
        /\ threads[t].pc = "check"
        /\ threads[t].index = 2
        /\ threads[t].work = << "lookup" >>
        /\ put_log[t][1] = << "success_cached", <<"j">>, <<"m">>, 1, 1 >>

\* the step runs _finalize_map_loading for the cycle under way
Finalizes == cycle # "none" /\ cycle' = "none" /\ previous' # NoPrevious

Outcome(p) == << p.map_markers, p.geolocated_count, p.skipped_count >>

SkippedItem(t) == << "skipped", Current(t)[1], Current(t)[2], "reason" >>

(***************************************************************************)
(* C11.  Every failure of the geocoder call for a location (no result,     *)
(* timeout, service unavailable, any other exception) puts exactly one     *)
(* 'skipped' item for that location and the thread goes on, through the    *)
(* sleep, to the next location of the list; a thread ends only by          *)
(* returning, after its 'finished' item, never by an exception.            *)
(***************************************************************************)
C11_FailureIsContained ==
    [][\A t \in Threads :
          \* the thread is alive until it has put 'finished' and returns
          /\ t \notin DOMAIN threads' =>
                /\ threads[t].pc = "exit"
                /\ t \in DOMAIN put_log => OneFinishedLast(put_log[t])
          \* the call fails: one 'skipped' item, then the sleep
          /\ (/\ threads[t].pc = "geocode"
              /\ Geocode(t)
              /\ t \in DOMAIN threads'
              /\ threads'[t].pc # "store") =>
                /\ put_log'[t] = Append(put_log[t], SkippedItem(t))
                /\ threads'[t].pc = "sleep"
                /\ threads'[t].index = threads[t].index
          \* after the sleep, the next location or the end of the list
          /\ (threads[t].pc = "sleep" /\ Sleep(t)) =>
                /\ threads'[t].pc = "check"
                /\ threads'[t].index = threads[t].index + 1
                /\ put_log'[t] = put_log[t]]_vars

\* both locations of a list failed, the second after the first, then 'finished'
C11_Witness ==
    \E t \in Logged :
        /\ threads[t].pc = "exit"
        /\ FlagStayedTrue(threads[t])
        /\ Len(threads[t].locations) = 2
        /\ Len(put_log[t]) = 3
        /\ put_log[t][1][1] = "skipped" /\ About(put_log[t][1], threads[t].locations[1])
        /\ put_log[t][2][1] = "skipped" /\ About(put_log[t][2], threads[t].locations[2])
        /\ IsFinished(put_log[t][3])

\* the items the UI thread gets from its queue in the step
Taken ==
    IF geocoding_queue' = geocoding_queue
    THEN SubSeq(got_log'[geocoding_queue], Len(got_log[geocoding_queue]) + 1,
                Len(got_log'[geocoding_queue]))
    ELSE << >>

IsSkipped(item) == item[1] = "skipped"

\* the text has the pieces of part, in a row
Contains(text, part) ==
    \E i \in 1..(Len(text) - Len(part) + 1) : SubSeq(text, i, i + Len(part) - 1) = part

\* f" ({self.skipped_count} skipped/errored)"
SkippedSuffix(k) == << Txt(" ("), Num(k), Txt(" skipped/errored)") >>

(***************************************************************************)
(* C12.  A geocoder call that returns no result puts exactly one 'skipped' *)
(* item for the location.  When the UI thread, with the map widget in      *)
(* place, gets 'skipped' items, skipped_count grows by exactly one per     *)
(* item, and geolocated_count and the markers are left as they are; the    *)
(* text final_map_status composed by _finalize_map_loading has             *)
(* "(k skipped/errored)", k the skipped count, whenever k > 0.             *)
(***************************************************************************)
C12_NoResultIsCountedAsSkipped ==
    [][/\ \A t \in Threads :
             (/\ threads[t].pc = "geocode"
              /\ Nominatim(Current(t)) = NULL
              /\ Geocode(t))
             => put_log'[t] = Append(put_log[t], SkippedItem(t))
       /\ (map_widget /\ Taken # << >>) =>
             /\ skipped_count' >= skipped_count + Len(SelectSeq(Taken, IsSkipped))
             /\ (\A i \in DOMAIN Taken : ~IsResult(Taken[i]) \/ IsSkipped(Taken[i])) =>
                   /\ skipped_count' = skipped_count + Len(SelectSeq(Taken, IsSkipped))
                   /\ geolocated_count' = geolocated_count
                   /\ map_markers' = map_markers
       /\ (final_map_status' # NULL /\ skipped_count' > 0) =>
             Contains(final_map_status', SkippedSuffix(skipped_count'))]_vars

\* the location Nominatim does not know was skipped, the other one has its marker,
\* and the cycle is finalized
C12_Witness ==
    /\ final_map_status =
          << Txt("Map status: Displaying "), Num(1), Txt(" locations with markers.") >>
             \o SkippedSuffix(1)
    /\ skipped_count = 1
    /\ \E i \in DOMAIN got_log[geocoding_queue] :
          got_log[geocoding_queue][i] = << "skipped", <<"a", "|", "b">>, <<"c">>, "reason" >>

\* the step runs _finalize_map_loading for the thread t
FinalizedFor(t) == t \in DOMAIN finalized /\ finalized'[t] > finalized[t]

\* the load cycle is Idle after the finalize of the batch of the current queue
IdleAgain ==
    (geocoding_queue \in DOMAIN finalized /\ finalized[geocoding_queue] > 0) =>
        ~processing_queue /\ geocoding_thread = 0

(***************************************************************************)
(* C13.  _finalize_map_loading runs only in a step of the UI thread that   *)
(* gets the 'finished' item of the current queue, at most once per thread  *)
(* started; when it has run, processing_queue is False and                 *)
(* self.geocoding_thread is None, and they stay so until the next load     *)
(* request, which is not refused as busy.                                  *)
(***************************************************************************)
C13_FinalizeOnlyOnFinishedOnce ==
    [][/\ \A t \in DOMAIN finalized' : finalized'[t] <= 1
       /\ \A t \in DOMAIN finalized :
             FinalizedFor(t) =>
                /\ t = geocoding_queue
                /\ \E i \in DOMAIN Taken : IsFinished(Taken[i])
                /\ ~processing_queue'
                /\ geocoding_thread' = 0
       /\ IdleAgain'
       /\ (IdleAgain /\ geocoding_queue \in DOMAIN finalized
             /\ finalized[geocoding_queue] > 0 /\ map_widget /\ Reload) =>
             last_load' \in { "started", "no_cases", "no_locations" }]_vars

\* the first batch was finalized and the load request after it started a thread
C13_Witness ==
    /\ DOMAIN finalized = {1, 2}
    /\ finalized[1] = 1
    /\ finalized[2] = 0
    /\ geocoding_queue = 2
    /\ last_load = "started"

(***************************************************************************)
(* C14.  As claimed, in its finite form: the 'finished' item of a thread   *)
(* can only be got, and its cycle finalized, from the queue that           *)
(* self.geocoding_queue refers to (line 2660), and a queue that was        *)
(* replaced is never referred to again.  So, for every cycle that started  *)
(* a thread to be finalized in the end, with the map widget in place and   *)
(* root._running true, a thread whose cycle is not finalized yet must      *)
(* still be the one of the current queue, whatever load requests were      *)
(* made.                                                                   *)
(***************************************************************************)
C14_UnfinalizedBatchIsCurrent ==
    (running /\ map_widget) =>
        \A t \in DOMAIN finalized : finalized[t] = 0 => t = geocoding_queue

\* v is the string c with blanks before and after it, and c has none at its ends
IsTrimOf(c, v) ==
    LET w == IF v = NULL THEN << >> ELSE v IN
    /\ c = << >> \/ (c[1] # " " /\ c[Len(c)] # " ")
    /\ \E i, j \in 0..Len(w) :
          /\ i + j <= Len(w)
          /\ c = SubSeq(w, i + 1, Len(w) - j)
          /\ \A k \in 1..i : w[k] = " "
          /\ \A k \in (Len(w) - j + 1)..Len(w) : w[k] = " "

\* the case has the location loc, once its city and state are trimmed
CaseIsAt(case, loc) ==
    /\ IsTrimOf(loc[1], case.city_of_offense)
    /\ IsTrimOf(loc[2], case.state_of_offense)

\* the list has the distinct trimmed locations of the cases, each once
IsLocationListOf(locations, all_cases) ==
    /\ \A i, j \in DOMAIN locations : locations[i] = locations[j] => i = j
    /\ \A k \in DOMAIN locations :
          /\ locations[k][1] # << >>
          /\ locations[k][2] # << >>
          /\ \E i \in DOMAIN all_cases : CaseIsAt(all_cases[i], locations[k])
    /\ \A i \in DOMAIN all_cases :
          \/ IsTrimOf(<< >>, all_cases[i].city_of_offense)
          \/ IsTrimOf(<< >>, all_cases[i].state_of_offense)
          \/ \E k \in DOMAIN locations : CaseIsAt(all_cases[i], locations[k])

\* the step is a load request that finds all_cases and starts a thread
LoadStarts(all_cases) ==
    /\ loads' = loads + 1
    /\ ui \in { "init", "idle" }
    /\ load_map_markers(all_cases)
    /\ UNCHANGED << geocache, running, map_widget, geocoded >>

(***************************************************************************)
(* C15.  The list of locations given to the thread has exactly the         *)
(* distinct (city, state) pairs, trimmed, of the cases whose city and      *)
(* state are both non-empty when trimmed: a case with an empty city or an  *)
(* empty state gives no location, and cases with the same pair give it     *)
(* once.                                                                   *)
(***************************************************************************)
C15_LocationsAreTrimmedDistinctPairs ==
    [][\A all_cases \in CaseDBs :
          LoadStarts(all_cases) =>
              IsLocationListOf(threads'[loads'].locations, all_cases)]_vars

\* four cases, one without a city and three that write the same pair differently:
\* one location
C15_Witness ==
    /\ last_load = "started"
    /\ threads[loads].locations = << << <<"j">>, <<"m">> >> >>
    /\ Len(grouped_cases_by_location[<< <<"j">>, <<"m">> >>]) = 3

\* the cases grouped under loc in the snapshot of the load request
GroupedAt(loc) ==
    IF loc \in DOMAIN grouped_cases_by_location
    THEN grouped_cases_by_location[loc] ELSE << >>

(***************************************************************************)
(* C16.  The popup text of the marker of a location lists every non-empty  *)
(* offense type, trimmed, of the cases grouped under that location in the  *)
(* snapshot, each exactly once, and nothing else; the cases grouped under  *)
(* a location are cases of that location only.                             *)
(***************************************************************************)
C16_PopupListsOffenseTypesOnce ==
    \A loc \in DOMAIN map_markers :
        LET types == map_markers[loc].data.types
            cases == GroupedAt(loc)
        IN
        /\ map_markers[loc].data.city = loc[1]
        /\ \A i, j \in DOMAIN types : types[i] = types[j] => i = j
        /\ \A k \in DOMAIN types :
              /\ types[k] # << >>
              /\ \E i \in DOMAIN cases : IsTrimOf(types[k], cases[i].offense_type)
        /\ \A i \in DOMAIN cases :
              /\ CaseIsAt(cases[i], loc)
              /\ \/ IsTrimOf(<< >>, cases[i].offense_type)
                 \/ \E k \in DOMAIN types : IsTrimOf(types[k], cases[i].offense_type)

\* two cases of one location with the same offense type, a case of another
\* location with another type: the popup has the one type once
C16_Witness ==
    LET loc == << <<"a">>, <<"b", "|", "c">> >> IN
    /\ loc \in DOMAIN map_markers
    /\ map_markers[loc].data.types = << <<"T">> >>
    /\ Len(GroupedAt(loc)) = 2
    /\ Cardinality(DOMAIN grouped_cases_by_location) = 2

(***************************************************************************)
(* C17.  As claimed: every key of the marker map is a location of the      *)
(* grouping computed by the last load request that cleared the markers;    *)
(* after a load request that found no case or no location the marker map   *)
(* stays empty and the counters stay 0.                                    *)
(***************************************************************************)
C17_MarkersOfLastLoadOnly ==
    /\ DOMAIN map_markers \subseteq DOMAIN grouped_cases_by_location
    /\ grouped_cases_by_location = Empty => geolocated_count = 0 /\ skipped_count = 0

(***************************************************************************)
(* C18.  As claimed: at most one call of _process_geocoding_results is     *)
(* pending in the timer, and it is the one self._geocoding_after_id        *)
(* identifies.                                                             *)
(***************************************************************************)
C18_OneSyncStepPending ==
    /\ Cardinality(timers) <= 1
    /\ timers \subseteq { geocoding_after_id }

(***************************************************************************)
(* C19.  As claimed: a step of the sync loop that gets an item and finds   *)
(* the map widget gone places no marker, changes no counter, does not call *)
(* _finalize_map_loading, leaves processing_queue False and schedules no   *)
(* further step, whichever item it got.                                    *)
(***************************************************************************)
C19_TeardownStopsAtOnce ==
    [][(~map_widget /\ Taken # << >>) =>
          /\ UNCHANGED << map_markers, geolocated_count, skipped_count >>
          /\ finalized' = finalized
          /\ ~processing_queue'
          /\ timers' \subseteq timers]_vars

(***************************************************************************)
(* C20.  As claimed: once root._running is False a thread begins no cache  *)
(* lookup and no geocoder call for a location it had not begun, and a call *)
(* of _process_geocoding_results made with root._running False gets no     *)
(* item and changes no marker and no counter.                              *)
(***************************************************************************)
C20_NothingBegunOnceStopped ==
    [][~running =>
          /\ \A t \in Threads :
                (threads[t].pc = "check" /\ t \in DOMAIN threads') =>
                    threads'[t].pc \in { "check", "finish" }
          /\ Taken = << >>
          /\ UNCHANGED << map_markers, geolocated_count, skipped_count >>]_vars

IsSuccess(item) == item[1] \in { "success_cached", "success_geocoded" }

(***************************************************************************)
(* C21.  As claimed: when the UI thread, with the map widget in place,     *)
(* gets 'success_cached' or 'success_geocoded' items, each of them has its *)
(* marker in self.map_markers afterwards, under its (city, state) and at   *)
(* its coordinates, geolocated_count grows by exactly one per such item,   *)
(* and skipped_count grows only by the 'skipped' items got with them.      *)
(***************************************************************************)
C21_EventPlacesMarker ==
    [][(map_widget /\ Taken # << >>) =>
          /\ geolocated_count' = geolocated_count + Len(SelectSeq(Taken, IsSuccess))
          /\ skipped_count' = skipped_count + Len(SelectSeq(Taken, IsSkipped))
          /\ \A i \in DOMAIN Taken :
                IsSuccess(Taken[i]) =>
                    /\ << Taken[i][2], Taken[i][3] >> \in DOMAIN map_markers'
                    /\ map_markers'[<< Taken[i][2], Taken[i][3] >>].position
                          = << Taken[i][4], Taken[i][5] >>]_vars

(***************************************************************************)
(* C22.  As claimed: when _finalize_map_loading runs for the thread t,     *)
(* with the map widget in place and root._running true, geolocated_count + *)
(* skipped_count is the number of locations of t, one per result item of   *)
(* its queue, and self.map_markers has exactly the locations of the        *)
(* 'success_cached' and 'success_geocoded' items of that queue.            *)
(***************************************************************************)
C22_CountsAddUpAtFinalize ==
    [][\A t \in DOMAIN finalized :
          (FinalizedFor(t) /\ map_widget /\ running) =>
              LET log == got_log'[t] IN
              /\ geolocated_count' + skipped_count' = Len(Results(log))
              /\ DOMAIN map_markers' =
                    { << log[i][2], log[i][3] >> : i \in { j \in DOMAIN log : IsSuccess(log[j]) } }]_vars

\* the step gets the 'finished' item of the current queue; a step of a geocoding
\* thread leaves finals, the doings of the last callback of the UI thread, as it is
FinishedTaken == \E i \in DOMAIN Taken : IsFinished(Taken[i])

(***************************************************************************)
(* C23.  As claimed: the step of the sync loop that gets 'finished'        *)
(* schedules no further step, leaves processing_queue False and runs       *)
(* _finalize_map_loading, which fits the viewport to the markers           *)
(* (fit_markers) when at least one marker is placed and otherwise sets the *)
(* default position and zoom; the viewport is fitted in no other step.     *)
(***************************************************************************)
C23_FinishedFitsOrResets ==
    [][/\ FinishedTaken =>
             /\ timers' \subseteq timers
             /\ ~processing_queue'
             /\ FinalizedFor(geocoding_queue)
             /\ viewport' = IF map_markers' # Empty THEN "fitted" ELSE "default"
       /\ (viewport' = "fitted" /\ finals' # finals) =>
             FinishedTaken /\ map_markers' # Empty]_vars

(***************************************************************************)
(* C23, amended.  The step of the sync loop that gets 'finished' schedules *)
(* no further step, leaves processing_queue False and runs                 *)
(* _finalize_map_loading.  With the map widget in place it calls           *)
(* fit_markers when at least one marker is placed, and the viewport is     *)
(* fitted unless that call raises (the status then says "Could not fit     *)
(* view."); with no marker placed it sets the default position and zoom,   *)
(* unless that call raises.  With the map widget gone the viewport is left *)
(* as it is.  The viewport is fitted in no other step.                     *)
(***************************************************************************)
C23_FinishedFitsOrResetsUnlessTkFails ==
    [][/\ FinishedTaken =>
             /\ timers' \subseteq timers
             /\ ~processing_queue'
             /\ FinalizedFor(geocoding_queue)
             /\ viewport' =
                   IF ~map_widget THEN "kept"
                   ELSE IF map_markers' # Empty
                        THEN IF Contains(final_map_status', << Txt(" locations. Could not fit view.") >>)
                             THEN "fit_failed" ELSE "fitted"
                        ELSE IF viewport' = "default_failed"
                             THEN "default_failed" ELSE "default"
       /\ (viewport' = "fitted" /\ finals' # finals) =>
             FinishedTaken /\ map_markers' # Empty /\ map_widget]_vars

\* a batch with one marker has been finalized and the viewport fitted to it
C23_Witness ==
    /\ viewport = "fitted"
    /\ Cardinality(DOMAIN map_markers) = 1
    /\ ~processing_queue
    /\ geocoding_queue \in DOMAIN finalized
    /\ finalized[geocoding_queue] = 1

\* the step is a load request that passes the guard and finds no location
EmptyLoad ==
    /\ last_load' \in { "no_cases", "no_locations" }
    /\ Startup \/ Reload

(***************************************************************************)
(* C24.  As claimed: a load request that passes the guard and finds no     *)
(* case, or no case with a city and a state, clears markers and counters,  *)
(* sets the default position and zoom, starts no thread, creates no queue  *)
(* and schedules no step of the sync loop, and when it returns the load    *)
(* cycle is Idle: processing_queue is False and no thread that             *)
(* self.geocoding_thread refers to is alive.                               *)
(***************************************************************************)
C24_EmptyLoadFinishesAtOnce ==
    [][EmptyLoad =>
          /\ map_markers' = Empty
          /\ geolocated_count' = 0
          /\ skipped_count' = 0
          /\ viewport' = "default"
          /\ UNCHANGED << threads, loads, geocoding_queue, queues, timers >>
          /\ geocoding_thread' # 0 => geocoding_thread' \notin DOMAIN threads'
          /\ ~processing_queue']_vars

\* the step of t is a cache lookup that ends with an error
FailedRead(t) ==
    /\ threads[t].pc = "lookup"
    /\ Lookup(t)
    /\ threads'[t].work = << "lookup_failed" >>

\* the step of t is a cache write that ends with an error
FailedWrite(t) ==
    /\ threads[t].pc = "store"
    /\ Store(t)
    /\ ~geocoded'[Current(t)].intact

(***************************************************************************)
(* C25.  A cache read that fails is a miss: nothing is put and the thread  *)
(* goes on to the geocoder call for the same location.  A cache write that *)
(* fails after a geocoder answer still puts the 'success_geocoded' item of *)
(* the location, with the coordinates of the answer, and the thread goes   *)
(* on through the sleep; no such failure ends the thread, which puts an    *)
(* item for every later location and 'finished' (C4, C11).                 *)
(***************************************************************************)
C25_CacheFailureIsContained ==
    [][\A t \in Threads :
          /\ FailedRead(t) =>
                /\ t \in DOMAIN threads'
                /\ threads'[t].pc = "geocode"
                /\ threads'[t].index = threads[t].index
                /\ put_log'[t] = put_log[t]
                /\ geocache' = geocache
          /\ FailedWrite(t) =>
                /\ t \in DOMAIN threads'
                /\ threads'[t].pc = "sleep"
                /\ threads'[t].index = threads[t].index
                /\ put_log'[t] = Append(put_log[t],
                      << "success_geocoded", Current(t)[1], Current(t)[2],
                         Nominatim(Current(t))[1], Nominatim(Current(t))[2] >>)
                /\ geocache' = geocache
          /\ (FailedRead(t) \/ FailedWrite(t)) => C4_AllLocationsReported']_vars

\* the row 'j|m' of an earlier run is still there with its coordinates (3, 3), and
\* the thread has put 'success_geocoded' for ('j', 'm') with the geocoder's (1, 1):
\* the read failed, the write failed, and the thread went on to 'finished'
C25_Witness ==
    \E t \in Logged :
        /\ threads[t].pc = "exit"
        /\ put_log[t] = << << "success_geocoded", <<"j">>, <<"m">>, 1, 1 >>, << "finished" >> >>
        /\ CacheKey(<< <<"j">>, <<"m">> >>) \in DOMAIN geocache
        /\ geocache[CacheKey(<< <<"j">>, <<"m">> >>)] = << 3, 3 >>

(***************************************************************************)
(* C26.  As claimed: the geocache table is changed by a geocoding thread   *)
(* only, in the step that makes its cache write; no callback of the UI     *)
(* thread changes it or removes it.                                        *)
(***************************************************************************)
C26_CacheTouchedByWorkerOnly ==
    [][geocache' # geocache =>
          \E t \in Threads : threads[t].pc = "store" /\ Store(t)]_vars

(***************************************************************************)
(* C27.  Whenever processing_queue is set, the map widget is in place and  *)
(* root._running is true, a call of _process_geocoding_results is pending  *)
(* in the timer (a callback of the UI thread is one step, so none is ever  *)
(* under way between two steps).                                           *)
(***************************************************************************)
C27_NoLostWakeup ==
    (processing_queue /\ map_widget /\ running) => timers # {}

\* the sync loop has got an item of a batch that is not finished and has scheduled
\* its next step
C27_Witness ==
    /\ processing_queue /\ map_widget /\ running
    /\ got_log[geocoding_queue] # << >>
    /\ timers = { geocoding_after_id }
    /\ last_load = "none"

\* the thread has made a geocoder call and has not finished the sleep that follows
\* it: lines 2627-2646
InThrottle(th) == th.pc \in { "store", "sleep" }

(***************************************************************************)
(* C28.  A geocoder call is made only when no thread, of this batch or of  *)
(* an earlier one, is between a geocoder call and the end of the sleep     *)
(* that follows it; and a thread that has made a call does nothing but the *)
(* cache write and the put until it has slept: it leaves that stretch only *)
(* by finishing the sleep.                                                 *)
(***************************************************************************)
C28_CallsAreThrottled ==
    [][\A t \in Threads :
          /\ (threads[t].pc = "geocode" /\ Geocode(t)) =>
                /\ \A u \in Threads : ~InThrottle(threads[u])
                /\ t \in DOMAIN threads'
                /\ InThrottle(threads'[t])
          /\ (/\ InThrottle(threads[t])
              /\ t \in DOMAIN threads' => ~InThrottle(threads'[t])) =>
                /\ threads[t].pc = "sleep"
                /\ Sleep(t)]_vars

\* the second thread started has made a geocoder call for ('j', 'm'); the row
\* 'a|b|c' was written after a call of the first thread
C28_Witness ==
    /\ loads = 2
    /\ 2 \in Threads
    /\ threads[2].pc = "sleep"
    /\ threads[2].locations = << << <<"j">>, <<"m">> >> >>
    /\ threads[2].work = << "lookup", "geocode", "store" >>
    /\ CacheKey(<< <<"a">>, <<"b", "|", "c">> >>) \in DOMAIN geocache

\* the load request was not refused: it started a thread or found nothing to load
Passed(how) == how \in { "started", "no_cases", "no_locations" }

(***************************************************************************)
(* C29.  With the map widget in place, a load request made when            *)
(* self.geocoding_thread is None or refers to a thread that has returned   *)
(* passes the guard, whatever processing_queue is and whether or not the   *)
(* batch of that thread was finalized: it clears the session and, if the   *)
(* cases have a location, starts a thread and sets processing_queue.       *)
(***************************************************************************)
C29_LoadPassesOnceWorkerTerminated ==
    [][(map_widget /\ geocoding_thread \notin Threads /\ Reload) =>
          /\ Passed(last_load')
          /\ map_markers' = Empty
          /\ last_load' = "started" =>
                /\ loads' = loads + 1
                /\ geocoding_thread' = loads'
                /\ geocoding_thread' \in DOMAIN threads'
                /\ processing_queue']_vars

\* the sync loop of the first batch ended without _finalize_map_loading and with no
\* step left pending (an unexpected error, lines 2738-2742), and the load request
\* made after the thread had returned has started the second thread
C29_Witness ==
    /\ last_load = "started"
    /\ map_widget /\ running
    /\ geocoding_queue = 2
    /\ finalized[1] = 0
    /\ timers = { geocoding_after_id }

(***************************************************************************)
(* C30.  In every reachable state geolocated_count is the number of        *)
(* entries of self.map_markers: marker and counter are set together, no    *)
(* location gets a marker twice between two resets, and markers and        *)
(* counter are reset together.                                             *)
(***************************************************************************)
C30_CountIsNumberOfMarkers ==
    geolocated_count = Cardinality(DOMAIN map_markers)

\* two markers placed and counted
C30_Witness ==
    /\ geolocated_count = 2
    /\ Cardinality(DOMAIN map_markers) = 2

\* the step is one of the thread t: its position in _geocode_locations_in_thread
\* changes or it returns (no callback of the UI thread does that to a thread)
ThreadMoves(t) ==
    \/ t \notin DOMAIN threads'
    \/ threads'[t].pc # threads[t].pc

(***************************************************************************)
(* C31.  No step of a geocoding thread changes the markers, the counters,  *)
(* the grouping, the status text, the viewport, processing_queue, the      *)
(* references to queue and thread or the timers: all it changes besides    *)
(* its own locals are the geocache table and its own queue, on which it    *)
(* only puts.                                                              *)
(***************************************************************************)
C31_WorkerLeavesUIStateAlone ==
    [][\A t \in Threads :
          ThreadMoves(t) =>
              /\ UNCHANGED << map_markers, geolocated_count, skipped_count,
                              grouped_cases_by_location, processing_queue,
                              final_map_status, viewport, last_load, finalized,
                              geocoding_queue, geocoding_thread, geocoding_after_id,
                              timers, running, map_widget, ui >>
              /\ \A q \in DOMAIN queues' :
                    /\ q \in DOMAIN queues
                    /\ got_log'[q] = got_log[q]
                    /\ IF q = t THEN IsPrefix(queues[q], queues'[q])
                       ELSE queues'[q] = queues[q]]_vars

\* the thread has put its second item and the sync loop, with the marker of the
\* first one placed, has its next step pending
C31_Witness ==
    \E t \in Logged :
        /\ threads[t].pc = "finish"
        /\ Len(put_log[t]) = 2
        /\ Len(queues[t]) = 1
        /\ geolocated_count = 1
        /\ processing_queue
        /\ timers # {}

(***************************************************************************)
(* C32.  A step of the sync loop gets only items that were on the queue    *)
(* when it began, from the front and in order, and leaves the rest; it     *)
(* returns when the queue is empty, also while the thread is still         *)
(* running.  A thread given N locations puts at most N + 1 items, nothing  *)
(* is put on a queue once its thread has returned, and no more is got from *)
(* a queue than was put on it: the steps of one batch get at most N + 1    *)
(* items in all.                                                           *)
(***************************************************************************)
C32_SyncStepOnlyDrains ==
    [][/\ Taken # << >> =>
             /\ IsPrefix(Taken, queues[geocoding_queue])
             /\ queues'[geocoding_queue] =
                   SubSeq(queues[geocoding_queue], Len(Taken) + 1,
                          Len(queues[geocoding_queue]))
       /\ \A q \in DOMAIN got_log' : Len(got_log'[q]) <= Len(put_log'[q])
       /\ \A t \in Threads \cap DOMAIN put_log' :
             t \in DOMAIN threads' =>
                 Len(put_log'[t]) <= Len(threads'[t].locations) + 1
       /\ \A q \in DOMAIN put_log \cap DOMAIN put_log' :
             q \notin Threads => put_log'[q] = put_log[q]]_vars

\* a step of the sync loop has found the queue empty while the thread was at its
\* geocoder call, has returned and has scheduled the next step
C32_Witness ==
    /\ last_load = "none"
    /\ cycle = "clean"
    /\ geocoding_queue \in Threads
    /\ threads[geocoding_queue].pc = "geocode"
    /\ put_log[geocoding_queue] = << >>
    /\ got_log[geocoding_queue] = << >>
    /\ processing_queue
    /\ timers = { geocoding_after_id }

====
